---- MODULE Spec2Model ----
(***************************************************************************)
(* The bonding-curve hook useBondingCurve (constant-product virtual        *)
(* reserves), the BondingCurve class (power-law curve, fee step), the      *)
(* hooks useTokenLaunch and useTrading, and TradingInterface.handleTrade.  *)
(*                                                                         *)
(* Numbers: a JavaScript number is modelled as an exact rational           *)
(* [n |-> numerator, d |-> denominator], d > 0, in lowest terms; rounding  *)
(* of IEEE doubles is not modelled.  Token amounts are counted in units of *)
(* 10^6 tokens (every formula of the hook is homogeneous in the token      *)
(* unit), so 1_073_000_000 tokens is Q(1073000000, 1000000).               *)
(***************************************************************************)
EXTENDS Integers, Sequences, FiniteSets, TLC

VARIABLES
    state,      \* useState<BondingCurveState>
    loading,    \* useState(false)
    error,      \* useState<string | null>(null)
    wallet,     \* publicKey && signTransaction of useWallet()
    tokenMint,  \* the hook's tokenMint argument is set
    calls,      \* the executeBuy / executeSell invocations, one per slot
    ops,        \* number of operations issued so far
    win,        \* history: the current window of overlapping executions
    fee,        \* BondingCurve: the feeRate, the amount and the fee of the last quote
    quoted,     \* history: the last calculateBuy / calculateSell call and what it returned
    last,       \* history: the last executeBuy / executeSell that wrote the state
    curve,      \* BondingCurve: the config, the last calculateBuyAmount call and its result
    launch,     \* useTokenLaunch: its state, its wallet and the calls made on it
    trading,    \* useTrading: its state, its wallet and the calls made on it
    ui          \* TradingInterface: its state and its handleTrade calls

vars ==
    <<state, loading, error, wallet, tokenMint, calls, ops, win, fee, quoted, last, curve,
      launch, trading, ui>>

----------------------------------------------------------------------------
\* JavaScript number arithmetic, as exact rationals

Abs(x) == IF x < 0 THEN -x ELSE x

RECURSIVE GCD(_, _)
GCD(a, b) == IF b = 0 THEN a ELSE GCD(b, a % b)

\* the rational n/d in lowest terms with a positive denominator (d # 0)
Q(n, d) ==
    LET s == IF d < 0 THEN -1 ELSE 1
        g == GCD(Abs(n), Abs(d))
    IN  [n |-> (s * n) \div g, d |-> (s * d) \div g]

Zero == Q(0, 1)
One == Q(1, 1)
Hundred == Q(100, 1)

\* a + b
RAdd(a, b) ==
    LET g == GCD(a.d, b.d)
    IN  Q(a.n * (b.d \div g) + b.n * (a.d \div g), (a.d \div g) * b.d)

RNeg(a) == [n |-> -a.n, d |-> a.d]

\* a - b
RSub(a, b) == RAdd(a, RNeg(b))

\* a * b
RMul(a, b) ==
    LET g1 == GCD(Abs(a.n), b.d)
        g2 == GCD(Abs(b.n), a.d)
    IN  [n |-> (a.n \div g1) * (b.n \div g2), d |-> (a.d \div g2) * (b.d \div g1)]

\* a / b, b # 0
RDiv(a, b) ==
    RMul(a, IF b.n < 0 THEN [n |-> -b.d, d |-> -b.n] ELSE [n |-> b.d, d |-> b.n])

\* a < b
RLt(a, b) ==
    LET g == GCD(a.d, b.d)
    IN  a.n * (b.d \div g) < b.n * (a.d \div g)

RLe(a, b) == ~RLt(b, a)

\* Math.abs
RAbs(a) == [n |-> Abs(a.n), d |-> a.d]

\* Math.max
RMax(a, b) == IF RLt(a, b) THEN b ELSE a

----------------------------------------------------------------------------
\* BONDING_CURVE_CONSTANTS

VIRTUAL_SOL_RESERVES == 30
VIRTUAL_TOKEN_RESERVES == Q(1073000000, 1000000)
REAL_SOL_RESERVES_TARGET == 85
TOTAL_SUPPLY == Q(1000000000, 1000000)
FEE_RATE == Q(1, 100)
SLIPPAGE_TOLERANCE == Q(5, 100)

----------------------------------------------------------------------------
\* Bounds of the model

NumSlots == 2       \* executions that can be in flight together
MaxCalls == 3       \* operations issued in one behaviour
IntCap == 20000     \* largest numerator or denominator of a reserve a trade is quoted on
Grid == 16          \* the power-law solver keeps its midpoints to multiples of 1/Grid

Slots == 1..NumSlots

\* values Math.random() returns, in [0, 1)
Rand == {Zero, Q(1, 2)}

\* maxSlippagePct of the caller's TradeRequest
MaxSlippages == {Q(1, 1), Q(50, 1)}

----------------------------------------------------------------------------
\* BondingCurveState and the calculators of useBondingCurve

InitialState ==
    [virtualSolReserves   |-> Q(VIRTUAL_SOL_RESERVES, 1),
     virtualTokenReserves |-> VIRTUAL_TOKEN_RESERVES,
     realSolReserves      |-> Zero,
     realTokenReserves    |-> Zero,
     totalSupply          |-> TOTAL_SUPPLY,
     marketCap            |-> Zero,
     progress             |-> Zero,
     isComplete           |-> FALSE]

\* the five reserve fields of a BondingCurveState
Reserves(st) ==
    <<st.virtualSolReserves, st.virtualTokenReserves, st.realSolReserves,
      st.realTokenReserves, st.totalSupply>>

getCurrentPrice(st) == RDiv(st.virtualSolReserves, st.virtualTokenReserves)

\* calculateBuy with the curve step taken on the gross solAmount: the fee is reported
\* but not deducted from the input
calculateBuyGross(st, solAmount) ==
    LET fee_ == RMul(solAmount, FEE_RATE)
        k == RMul(st.virtualSolReserves, st.virtualTokenReserves)
        newSolReserves == RAdd(st.virtualSolReserves, solAmount)
        newTokenReserves == RDiv(k, newSolReserves)
        outputAmount == RSub(st.virtualTokenReserves, newTokenReserves)
        oldPrice == getCurrentPrice(st)
        newPrice == RDiv(newSolReserves, newTokenReserves)
        priceImpact == RMul(RDiv(RSub(newPrice, oldPrice), oldPrice), Hundred)
    IN  [outputAmount |-> outputAmount,
         priceImpact  |-> priceImpact,
         newPrice     |-> newPrice,
         slippage     |-> RAbs(priceImpact),
         fee          |-> fee_]

\* calculateBuy with the tokens paid out at the price before the trade instead of
\* along the constant-product curve
calculateBuyAtSpot(st, solAmount) ==
    LET fee_ == RMul(solAmount, FEE_RATE)
        netSolAmount == RSub(solAmount, fee_)
        oldPrice == getCurrentPrice(st)
        outputAmount == RDiv(netSolAmount, oldPrice)
        newSolReserves == RAdd(st.virtualSolReserves, netSolAmount)
        newTokenReserves == RSub(st.virtualTokenReserves, outputAmount)
        newPrice == RDiv(newSolReserves, newTokenReserves)
        priceImpact == RMul(RDiv(RSub(newPrice, oldPrice), oldPrice), Hundred)
    IN  [outputAmount |-> outputAmount,
         priceImpact  |-> priceImpact,
         newPrice     |-> newPrice,
         slippage     |-> RAbs(priceImpact),
         fee          |-> fee_]

calculateBuy(st, solAmount) ==
    LET fee_ == RMul(solAmount, FEE_RATE)
        netSolAmount == RSub(solAmount, fee_)
        k == RMul(st.virtualSolReserves, st.virtualTokenReserves)
        newSolReserves == RAdd(st.virtualSolReserves, netSolAmount)
        newTokenReserves == RDiv(k, newSolReserves)
        outputAmount == RSub(st.virtualTokenReserves, newTokenReserves)
        oldPrice == getCurrentPrice(st)
        newPrice == RDiv(newSolReserves, newTokenReserves)
        priceImpact == RMul(RDiv(RSub(newPrice, oldPrice), oldPrice), Hundred)
        slippage == RAbs(priceImpact)
    IN  [outputAmount |-> outputAmount,
         priceImpact  |-> priceImpact,
         newPrice     |-> newPrice,
         slippage     |-> slippage,
         fee          |-> fee_]

calculateSell(st, tokenAmount) ==
    LET k == RMul(st.virtualSolReserves, st.virtualTokenReserves)
        newTokenReserves == RAdd(st.virtualTokenReserves, tokenAmount)
        newSolReserves == RDiv(k, newTokenReserves)
        grossSolAmount == RSub(st.virtualSolReserves, newSolReserves)
        fee_ == RMul(grossSolAmount, FEE_RATE)
        outputAmount == RSub(grossSolAmount, fee_)
        oldPrice == getCurrentPrice(st)
        newPrice == RDiv(newSolReserves, newTokenReserves)
        priceImpact == RMul(RDiv(RSub(newPrice, oldPrice), oldPrice), Hundred)
        slippage == RAbs(priceImpact)
    IN  [outputAmount |-> outputAmount,
         priceImpact  |-> priceImpact,
         newPrice     |-> newPrice,
         slippage     |-> slippage,
         fee          |-> fee_]

\* the slippage check with the tolerance taken as a percentage already (0.05 percent)
SlippageTooHighNoPercent(calculation) ==
    RLt(SLIPPAGE_TOLERANCE, calculation.slippage)

\* calculation.slippage > BONDING_CURVE_CONSTANTS.SLIPPAGE_TOLERANCE * 100
SlippageTooHigh(calculation) ==
    RLt(RMul(SLIPPAGE_TOLERANCE, Hundred), calculation.slippage)

\* the updater executeBuy passes to setState, applied to prevState
buyUpdate(prevState, solAmount, calcFee, calcOutputAmount) ==
    [prevState EXCEPT
        !.virtualSolReserves   = RAdd(@, RSub(solAmount, calcFee)),
        !.virtualTokenReserves = RSub(@, calcOutputAmount),
        !.realSolReserves      = RAdd(@, RSub(solAmount, calcFee))]

\* the updater of executeSell without its write of realSolReserves
sellUpdateNoReal(prevState, tokenAmount, calcOutputAmount) ==
    [prevState EXCEPT
        !.virtualSolReserves   = RSub(@, calcOutputAmount),
        !.virtualTokenReserves = RAdd(@, tokenAmount)]

\* the updater executeSell passes to setState, applied to prevState
sellUpdate(prevState, tokenAmount, calcOutputAmount) ==
    [prevState EXCEPT
        !.virtualSolReserves   = RSub(@, calcOutputAmount),
        !.virtualTokenReserves = RAdd(@, tokenAmount),
        !.realSolReserves      = RMax(Zero, RSub(@, calcOutputAmount))]

\* the mockState refreshState builds from four Math.random() values
mockState(r1, r2, r3, r4) ==
    LET vSol == RAdd(Q(VIRTUAL_SOL_RESERVES, 1), RMul(r1, Q(10, 1)))
        vTok == RSub(VIRTUAL_TOKEN_RESERVES, RMul(r2, Q(100000000, 1000000)))
        rSol == RMul(r3, Q(50, 1))
        rTok == RMul(r4, Q(500000000, 1000000))
        prog == RMul(RDiv(rSol, Q(REAL_SOL_RESERVES_TARGET, 1)), Hundred)
    IN  [virtualSolReserves   |-> vSol,
         virtualTokenReserves |-> vTok,
         realSolReserves      |-> rSol,
         realTokenReserves    |-> rTok,
         totalSupply          |-> TOTAL_SUPPLY,
         marketCap            |-> RMul(RDiv(vSol, vTok), TOTAL_SUPPLY),
         progress             |-> prog,
         isComplete           |-> RLe(Hundred, prog)]

----------------------------------------------------------------------------
\* The BondingCurve class (power-law curve).  Its numbers are doubles; the solver's
\* midpoints are kept here to multiples of 1/Grid, as a double keeps them to 53
\* significant bits, so that the 100 iterations of the bisection can be run.  The
\* exponent k is a natural number other than 1: the logarithm of the k === 1 branch
\* of calculateIntegral has no rational value.

\* Math.pow(x, k) for a natural number k
RECURSIVE RPow(_, _)
RPow(x, k) == IF k = 0 THEN One ELSE RMul(x, RPow(x, k - 1))

\* the nearest multiple of 1/Grid, a tie going to the even one
Round(x) ==
    LET floor == (2 * x.n * Grid) \div (2 * x.d)
        rest == (2 * x.n * Grid) % (2 * x.d)
    IN  Q(IF rest > x.d \/ (rest = x.d /\ floor % 2 = 1) THEN floor + 1 ELSE floor, Grid)

\* the for loop of solveForSupply runs at most this many times
MaxIterations == 100

\* Math.abs(x) < tolerance, tolerance = 1e-10: every rational of the model other than
\* 0 has a denominator below 2^31 and so a magnitude above 1e-10
WithinTolerance(x) == x.n = 0

getMaxPrice(this) == RMul(this.config.initialPrice, RPow(One, this.config.k))

\* calculatePrice without its two early returns
calculatePriceUnclamped(this, supply) ==
    RMul(this.config.initialPrice,
         RPow(RDiv(supply, this.config.maxSupply), this.config.k))

calculatePrice(this, supply) ==
    IF RLe(supply, Zero) THEN this.config.initialPrice
    ELSE IF RLe(this.config.maxSupply, supply) THEN getMaxPrice(this)
    ELSE RMul(this.config.initialPrice,
              RPow(RDiv(supply, this.config.maxSupply), this.config.k))

\* x^(1/k) for a rational x that is the k-th power of a rational, which is every
\* argument Math.pow(ratio, 1 / k) is given here
Root(x, k) ==
    LET IPow[a \in Nat, j \in 0..k] == IF j = 0 THEN 1 ELSE a * IPow[a, j - 1]
    IN  Q(CHOOSE a \in 1..x.n : IPow[a, k] = x.n, CHOOSE b \in 1..x.d : IPow[b, k] = x.d)

calculateSupplyFromPrice(this, price) ==
    IF RLe(price, this.config.initialPrice) THEN Zero
    ELSE LET ratio == RDiv(price, this.config.initialPrice)
         IN  RMul(this.config.maxSupply, Root(ratio, this.config.k))

\* the power branch of calculateIntegral; solAmount is not used
calculateIntegral(this, supply, solAmount) ==
    LET exponent == this.config.k + 1
    IN  RMul(RDiv(RMul(this.config.initialPrice, this.config.maxSupply), Q(exponent, 1)),
             RPow(RDiv(supply, this.config.maxSupply), exponent))

\* the loop of solveForSupply from iteration i on; converged tells which of the two
\* return statements was taken.  An iteration that leaves low and high as they were
\* is repeated unchanged by all that follow it, up to the cap: the loop then ends
\* at the return after it.
RECURSIVE bisect(_, _, _, _, _, _)
bisect(this, currentSupply, targetIntegral, low, high, i) ==
    LET mid == Round(RDiv(RAdd(low, high), Q(2, 1)))
        integral == RSub(calculateIntegral(this, mid, Zero),
                         calculateIntegral(this, currentSupply, Zero))
        newLow == IF RLt(integral, targetIntegral) THEN mid ELSE low
        newHigh == IF RLt(integral, targetIntegral) THEN high ELSE mid
    IN  IF i >= MaxIterations
        THEN [value |-> mid, converged |-> FALSE, iterations |-> i]
        ELSE IF WithinTolerance(RSub(integral, targetIntegral))
        THEN [value |-> mid, converged |-> TRUE, iterations |-> i + 1]
        ELSE IF newLow = low /\ newHigh = high
        THEN [value |-> mid, converged |-> FALSE, iterations |-> MaxIterations]
        ELSE bisect(this, currentSupply, targetIntegral, newLow, newHigh, i + 1)

solveForSupply(this, currentSupply, targetIntegral) ==
    bisect(this, currentSupply, targetIntegral, currentSupply, this.config.maxSupply, 0)

\* Infinity or NaN, the result of a division by 0
NonFinite == [n |-> 0, d |-> 0]

\* calculateBuyAmount(solAmount, currentSupply): the TradeCalculation it returns, and
\* with it the solver's result it was made from
calculateBuyAmountQuote(this, solAmount, currentSupply) ==
    LET fee_ == RMul(solAmount, this.feeRate)
        netSolAmount == RSub(solAmount, fee_)
        currentPrice == calculatePrice(this, currentSupply)
        integral == calculateIntegral(this, currentSupply, netSolAmount)
        solved == solveForSupply(this, currentSupply, integral)
        newSupply == solved.value
        tokensOut == RSub(newSupply, currentSupply)
        newPrice == calculatePrice(this, newSupply)
        priceImpact == RMul(RDiv(RSub(newPrice, currentPrice), currentPrice), Hundred)
        slippage == IF tokensOut.n = 0 THEN NonFinite
                    ELSE RMul(RDiv(RSub(RDiv(netSolAmount, tokensOut), currentPrice),
                                   currentPrice), Hundred)
    IN  [inputAmount  |-> solAmount,
         outputAmount |-> tokensOut,
         priceAfter   |-> newPrice,
         priceImpact  |-> priceImpact,
         slippage     |-> slippage,
         fee          |-> fee_,
         netAmount    |-> tokensOut,
         solved       |-> solved]

\* calculateSellAmount(tokenAmount, currentSupply) past its check of the amount
calculateSellAmountQuote(this, tokenAmount, currentSupply) ==
    LET currentPrice == calculatePrice(this, currentSupply)
        newSupply == RSub(currentSupply, tokenAmount)
        newPrice == calculatePrice(this, newSupply)
        integral == RSub(calculateIntegral(this, newSupply, Zero),
                         calculateIntegral(this, currentSupply, Zero))
        solOut == RAbs(integral)
        fee_ == RMul(solOut, this.feeRate)
        netSolOut == RSub(solOut, fee_)
        priceImpact == RMul(RDiv(RSub(currentPrice, newPrice), currentPrice), Hundred)
        slippage == IF tokenAmount.n = 0 THEN NonFinite
                    ELSE RMul(RDiv(RSub(currentPrice, RDiv(solOut, tokenAmount)),
                                   currentPrice), Hundred)
    IN  [inputAmount  |-> tokenAmount,
         outputAmount |-> netSolOut,
         priceAfter   |-> newPrice,
         priceImpact  |-> priceImpact,
         slippage     |-> slippage,
         fee          |-> fee_,
         netAmount    |-> netSolOut]

validateTrade(this, amount, isBuy, currentSupply) ==
    IF RLe(amount, Zero) THEN FALSE
    ELSE IF isBuy
         THEN LET calculation == calculateBuyAmountQuote(this, amount, currentSupply)
              IN  /\ RLt(Zero, calculation.outputAmount)
                  /\ RLe(RAdd(currentSupply, calculation.outputAmount),
                         this.config.maxSupply)
         ELSE RLe(amount, currentSupply)

\* the configs a BondingCurve is constructed with
Configs ==
    {[initialPrice |-> One, k |-> 2, maxSupply |-> Q(8, 1)],
     [initialPrice |-> Q(1, 2), k |-> 2, maxSupply |-> Q(4, 1)]}

\* currentSupply arguments of the calls
Supplies == {Q(0, 1), Q(1, 2), Q(1, 1), Q(2, 1), Q(3, 1), Q(4, 1), Q(7, 1), Q(8, 1)}

\* solAmount arguments of calculateBuyAmount
SolAmounts ==
    {Q(-1, 1), Q(0, 1), Q(1, 100), Q(1, 10), Q(1, 1), Q(2, 1), Q(10, 1), Q(100, 1)}

\* a BondingCurve on which no call was made yet
NoCurve ==
    [config |-> [initialPrice |-> One, k |-> 2, maxSupply |-> Q(8, 1)],
     feeRate |-> Q(1, 100), op |-> "none", amount |-> Zero, currentSupply |-> Zero,
     outcome |-> "none", result |-> <<>>]

\* createBondingCurve(config): new BondingCurve(fullConfig), feeRate at its default
createBondingCurve(config) == [NoCurve EXCEPT !.config = config]

----------------------------------------------------------------------------
\* The hook as a state machine.  executeBuy and executeSell run up to their
\* await in one step and resume in a later one; refreshState has no await.

\* a slot in which no call was made yet
NoCall ==
    [kind |-> "none", pc |-> "idle", amount |-> Zero, maxSlippagePct |-> Zero,
     slippage |-> Zero, fee |-> Zero, outputAmount |-> Zero, snap |-> <<>>,
     outcome |-> "none"]

\* some call is suspended at its await
InFlight(cs) == \E j \in Slots : cs[j].pc = "await"

\* the window of overlapping executions after a call entered its await
winAfterStart(kind, amount) ==
    IF InFlight(calls)
    THEN [win EXCEPT !.ops = Append(@, [kind |-> kind, amount |-> amount])]
    ELSE [base |-> state, ops |-> <<[kind |-> kind, amount |-> amount]>>, clean |-> TRUE]

\* the record of the call of slot i as it returns from its setState.  alone tells that
\* it applied its calculation to the reserves it was made on; trip that it is a sell
\* of exactly the tokens the buy before it paid out, on the reserves that buy left,
\* and then q, buyFee and start are that buy's solAmount, its fee and the reserves
\* before it
returned(i) ==
    LET alone == calls[i].snap = Reserves(state)
        trip == /\ calls[i].kind = "sell"
                /\ alone
                /\ last.kind = "buy"
                /\ last.alone
                /\ RLt(Zero, last.amount)
                /\ calls[i].amount = last.outputAmount
                /\ calls[i].snap = last.after
    IN  [kind |-> calls[i].kind, amount |-> calls[i].amount, fee |-> calls[i].fee,
         outputAmount |-> calls[i].outputAmount, before |-> Reserves(state),
         after |-> Reserves(state'), alone |-> alone, trip |-> trip,
         q |-> IF trip THEN last.amount ELSE Zero,
         buyFee |-> IF trip THEN last.fee ELSE Zero,
         start |-> IF trip THEN last.before ELSE <<>>]

\* the early return of executeBuy / executeSell without a wallet or a tokenMint
earlyReturn(i, call) ==
    /\ error' = "Wallet not connected"
    /\ calls' = [calls EXCEPT ![i] =
           [call EXCEPT !.pc = "done", !.outcome = "WalletNotConnected"]]
    /\ UNCHANGED <<state, loading, win,
                 launch, trading, ui>>

\* the throw on too high a slippage coming after a first write of the reserves
catchSlippageAfterWrite(i, call, calculation) ==
    /\ error' = "Slippage too high"
    /\ loading' = FALSE
    /\ calls' = [calls EXCEPT ![i] =
           [call EXCEPT !.pc = "done", !.outcome = "SlippageExceeded",
                        !.slippage = calculation.slippage]]
    /\ state' = [state EXCEPT !.virtualTokenReserves = RSub(@, calculation.outputAmount)]
    /\ UNCHANGED win

\* the throw on too high a slippage, with the catch and finally blocks it runs
catchSlippage(i, call, calculation) ==
    /\ error' = "Slippage too high"
    /\ loading' = FALSE
    /\ calls' = [calls EXCEPT ![i] =
           [call EXCEPT !.pc = "done", !.outcome = "SlippageExceeded",
                        !.slippage = calculation.slippage]]
    /\ UNCHANGED <<state, win,
                 launch, trading, ui>>

\* the call reaches its await holding the calculation it made
suspend(i, call, calculation) ==
    /\ error' = "null"
    /\ loading' = TRUE
    /\ calls' = [calls EXCEPT ![i] =
           [call EXCEPT !.pc = "await",
                        !.slippage = calculation.slippage,
                        !.fee = calculation.fee,
                        !.outputAmount = calculation.outputAmount,
                        !.snap = Reserves(state)]]
    /\ win' = winAfterStart(call.kind, call.amount)
    /\ UNCHANGED state

\* executeBuy(solAmount), from the call to the await or to the early return
executeBuyCall(i, solAmount, maxSlippagePct) ==
    /\ calls[i].pc # "await"
    /\ LET call == [NoCall EXCEPT !.kind = "buy", !.amount = solAmount,
                                  !.maxSlippagePct = maxSlippagePct]
           calculation == calculateBuy(state, solAmount)
       IN  IF ~(wallet /\ tokenMint) THEN earlyReturn(i, call)
           ELSE IF SlippageTooHigh(calculation) THEN catchSlippage(i, call, calculation)
           ELSE suspend(i, call, calculation)
    /\ UNCHANGED <<wallet, tokenMint, fee, quoted, last, curve,
                 launch, trading, ui>>

\* executeBuy after its await: setState(updater), return, finally
executeBuyResume(i) ==
    /\ calls[i].pc = "await"
    /\ calls[i].kind = "buy"
    /\ state' = buyUpdate(state, calls[i].amount, calls[i].fee, calls[i].outputAmount)
    /\ loading' = FALSE
    /\ calls' = [calls EXCEPT ![i].pc = "done", ![i].outcome = "ok"]
    /\ last' = returned(i)
    /\ UNCHANGED <<error, wallet, tokenMint, ops, win, fee, quoted, curve,
                 launch, trading, ui>>

\* executeSell(tokenAmount), from the call to the await or to the early return
executeSellCall(i, tokenAmount) ==
    /\ calls[i].pc # "await"
    /\ LET call == [NoCall EXCEPT !.kind = "sell", !.amount = tokenAmount]
           calculation == calculateSell(state, tokenAmount)
       IN  IF ~(wallet /\ tokenMint) THEN earlyReturn(i, call)
           ELSE IF SlippageTooHigh(calculation) THEN catchSlippage(i, call, calculation)
           ELSE suspend(i, call, calculation)
    /\ UNCHANGED <<wallet, tokenMint, fee, quoted, last, curve,
                 launch, trading, ui>>

\* executeSell after its await: setState(updater), return, finally
executeSellResume(i) ==
    /\ calls[i].pc = "await"
    /\ calls[i].kind = "sell"
    /\ state' = sellUpdate(state, calls[i].amount, calls[i].outputAmount)
    /\ loading' = FALSE
    /\ calls' = [calls EXCEPT ![i].pc = "done", ![i].outcome = "ok"]
    /\ last' = returned(i)
    /\ UNCHANGED <<error, wallet, tokenMint, ops, win, fee, quoted, curve,
                 launch, trading, ui>>

\* refreshState(): returns at once without a tokenMint, else runs to its end
refreshStateCall(r1, r2, r3, r4) ==
    /\ tokenMint
    /\ state' = mockState(r1, r2, r3, r4)
    /\ loading' = FALSE
    /\ error' = "null"
    /\ win' = [win EXCEPT !.clean = FALSE]
    /\ UNCHANGED <<wallet, tokenMint, calls, fee, quoted, last, curve,
                 launch, trading, ui>>

\* an operation is issued while fewer than MaxCalls were
Issue == ops < MaxCalls /\ ops' = ops + 1

\* the record of a calculateBuy / calculateSell call and of what it returned; again
\* tells that the call before it had the same amount on the same reserves, between
\* how many operations were issued between the two
quote(kind, amount, result) ==
    LET same == quoted.kind = kind /\ quoted.amount = amount /\ quoted.snap = Reserves(state)
    IN  [kind |-> kind, amount |-> amount, snap |-> Reserves(state),
         outcome |-> "returned", result |-> result, at |-> ops + 1, again |-> same,
         between |-> IF same THEN ops - quoted.at ELSE 0]

\* calculateBuy(solAmount) with a write of the reserves it quotes
calculateBuyCallWriting(solAmount) ==
    /\ quoted' = quote("buy", solAmount, calculateBuy(state, solAmount))
    /\ state' = buyUpdate(state, solAmount, calculateBuy(state, solAmount).fee,
                          calculateBuy(state, solAmount).outputAmount)
    /\ UNCHANGED <<loading, error, wallet, tokenMint, calls, win, fee, last, curve,
                 launch, trading, ui>>

\* calculateBuy(solAmount) called on the hook's current render
calculateBuyCall(solAmount) ==
    /\ quoted' = quote("buy", solAmount, calculateBuy(state, solAmount))
    /\ UNCHANGED <<state, loading, error, wallet, tokenMint, calls, win, fee, last, curve,
                 launch, trading, ui>>

\* calculateSell(tokenAmount) called on the hook's current render
calculateSellCall(tokenAmount) ==
    /\ quoted' = quote("sell", tokenAmount, calculateSell(state, tokenAmount))
    /\ UNCHANGED <<state, loading, error, wallet, tokenMint, calls, win, fee, last, curve,
                 launch, trading, ui>>

\* the virtual reserves are small enough for the quote's arithmetic to stay within
\* 32-bit integers
Quotable(st) ==
    \A x \in {st.virtualSolReserves, st.virtualTokenReserves} :
        Abs(x.n) <= IntCap /\ x.d <= IntCap

executeBuy(i, solAmount, maxSlippagePct) ==
    Issue /\ Quotable(state) /\ executeBuyCall(i, solAmount, maxSlippagePct)

executeSell(i, tokenAmount) ==
    Issue /\ Quotable(state) /\ executeSellCall(i, tokenAmount)

refreshState(r1, r2, r3, r4) == Issue /\ refreshStateCall(r1, r2, r3, r4)

calculateBuyQuote(solAmount) == Issue /\ Quotable(state) /\ calculateBuyCall(solAmount)

calculateSellQuote(tokenAmount) == Issue /\ Quotable(state) /\ calculateSellCall(tokenAmount)

\* the wallet adapter connects or disconnects
WalletChange ==
    /\ wallet' = ~wallet
    /\ UNCHANGED <<state, loading, error, tokenMint, calls, ops, win, fee, quoted, last, curve,
                 launch, trading, ui>>

\* solAmount arguments of executeBuy: the caller sizes a buy relative to the pool, a
\* net input of 1/50 or of 1/10 of the virtual SOL reserve
BuyAmounts(st) ==
    {RMul(st.virtualSolReserves, x) : x \in {Q(2, 99), Q(10, 99)}}

\* tokenAmount arguments of executeSell: 1/98 or 1/10 of the virtual token reserve
SellAmounts(st) ==
    {RMul(st.virtualTokenReserves, y) : y \in {Q(1, 98), Q(1, 10)}}

\* solAmount arguments of any sign: those of BuyAmounts, 0, and a negative number
BuyArguments(st) ==
    BuyAmounts(st) \cup {RMul(st.virtualSolReserves, x) : x \in {Q(0, 1), Q(-2, 99)}}

\* tokenAmount arguments of any size: those of SellAmounts, twice the virtual token
\* reserve, and, right after a buy that ran alone, the tokens that buy paid out
SellArguments(st) ==
    SellAmounts(st) \cup {RMul(st.virtualTokenReserves, Q(2, 1))}
        \cup (IF last.kind = "buy" /\ last.alone /\ last.after = Reserves(st)
              THEN {last.outputAmount} ELSE {})

NoFee == [feeRate |-> Zero, amount |-> Zero, fee |-> Zero, netSolAmount |-> Zero]

\* no calculateBuy / calculateSell call was made yet
NoQuote ==
    [kind |-> "none", amount |-> Zero, snap |-> <<>>, outcome |-> "none",
     result |-> <<>>, at |-> 0, again |-> FALSE, between |-> 0]

\* no executeBuy / executeSell has written the state yet
NoLast ==
    [kind |-> "none", amount |-> Zero, fee |-> Zero, outputAmount |-> Zero,
     before |-> <<>>, after |-> <<>>, alone |-> FALSE, trip |-> FALSE, q |-> Zero,
     buyFee |-> Zero, start |-> <<>>]

\* ---- initial values of useTokenLaunch, useTrading and TradingInterface ----

\* an invocation slot of useTokenLaunch on which no call is running
NoLaunchCall ==
    [kind |-> "none", pc |-> "idle", tokenAddress |-> "null", invoked |-> FALSE,
     outcome |-> "none"]

\* useState<TokenLaunchState>
InitialLaunchState ==
    [isLaunching |-> FALSE, isCreating |-> FALSE, error |-> "null",
     txSignature |-> "null", tokenAddress |-> "null", progress |-> 0]

NoLaunch ==
    [state |-> InitialLaunchState,
     publicKey |-> FALSE, signTransaction |-> FALSE,
     calls |-> [i \in Slots |-> NoLaunchCall]]

\* an invocation slot of useTrading on which no executeTrade call is running; a call
\* that has returned leaves its outcome only
NoTradeCall ==
    [pc |-> "idle", tokenAddress |-> "", amount |-> 0, side |-> "none",
     outcome |-> "none"]

\* useState<TradingState>: isTrading and positions, a Record<string, number> with no
\* entry yet (prices are not modelled)
NoTrading ==
    [state |-> [isTrading |-> FALSE, positions |-> [t \in {} |-> 0]],
     publicKey |-> FALSE, signTransaction |-> FALSE,
     calls |-> [i \in Slots |-> NoTradeCall],
     trades |-> 0]

\* an invocation slot of TradingInterface on which no handleTrade call is running
NoHandleTrade ==
    [pc |-> "idle", activeTab |-> "buy", amount |-> Zero, total |-> Zero,
     outcome |-> "none"]

\* the useState values of TradingInterface that handleTrade reads or writes;
\* tradePrice starts as tokenData.price.toString()
NoUi ==
    [connected |-> FALSE, balance |-> Zero, tokenBalance |-> Zero, activeTab |-> "buy",
     tradeAmount |-> "", tradePrice |-> "0.00234", isLoading |-> FALSE,
     fetching |-> FALSE,
     calls |-> [i \in Slots |-> NoHandleTrade],
     trades |-> 0]

Init ==
    /\ state = InitialState
    /\ loading = FALSE
    /\ error = "null"
    /\ wallet \in BOOLEAN
    /\ tokenMint \in BOOLEAN
    /\ calls = [i \in Slots |-> NoCall]
    /\ ops = 0
    /\ win = [base |-> InitialState, ops |-> <<>>, clean |-> FALSE]
    /\ fee = NoFee
    /\ quoted = NoQuote
    /\ last = NoLast
    /\ launch = NoLaunch
    /\ trading = NoTrading
    /\ ui = NoUi
    /\ curve = NoCurve

\* a new call takes the first slot that holds no suspended call
FreeSlot(i) == calls[i].pc # "await" /\ \A j \in 1..(i - 1) : calls[j].pc = "await"

Next ==
    \/ \E i \in Slots, a \in BuyAmounts(state), m \in MaxSlippages :
            FreeSlot(i) /\ executeBuy(i, a, m)
    \/ \E i \in Slots : executeBuyResume(i)
    \/ \E i \in Slots, t \in SellAmounts(state) : FreeSlot(i) /\ executeSell(i, t)
    \/ \E i \in Slots : executeSellResume(i)
    \/ \E r1, r2, r3, r4 \in Rand : refreshState(r1, r2, r3, r4)
    \/ WalletChange

Spec == Init /\ [][Next]_vars

----------------------------------------------------------------------------
\* The hook with a connected wallet, called with arguments of any sign and size:
\* trades, calculateBuy / calculateSell calls and refreshes between them.

InitTrade ==
    /\ state = InitialState
    /\ loading = FALSE
    /\ error = "null"
    /\ wallet = TRUE
    /\ tokenMint = TRUE
    /\ calls = [i \in Slots |-> NoCall]
    /\ ops = 0
    /\ win = [base |-> InitialState, ops |-> <<>>, clean |-> FALSE]
    /\ fee = NoFee
    /\ quoted = NoQuote
    /\ last = NoLast
    /\ launch = NoLaunch
    /\ trading = NoTrading
    /\ ui = NoUi
    /\ curve = NoCurve

NextTrade ==
    \/ \E i \in Slots, a \in BuyArguments(state) :
            FreeSlot(i) /\ executeBuy(i, a, RMul(SLIPPAGE_TOLERANCE, Hundred))
    \/ \E i \in Slots : executeBuyResume(i)
    \/ \E i \in Slots, t \in SellArguments(state) : FreeSlot(i) /\ executeSell(i, t)
    \/ \E i \in Slots : executeSellResume(i)
    \/ \E a \in BuyArguments(state) : calculateBuyQuote(a)
    \/ \E t \in SellArguments(state) : calculateSellQuote(t)
    \/ \E r2, r3 \in Rand : refreshState(Zero, r2, r3, Zero)

SpecTrade == InitTrade /\ [][NextTrade]_vars

\* ---- calculateBuy as a function of the reserves it reads and of solAmount ----

\* (virtualSolReserves, virtualTokenReserves) of the BondingCurveState values quoted on
Snapshots ==
    {<<Q(10, 1), Q(100, 1)>>, <<Q(VIRTUAL_SOL_RESERVES, 1), VIRTUAL_TOKEN_RESERVES>>,
     <<Q(40, 1), Q(973, 1)>>, <<Q(20, 1), Q(50, 1)>>, <<One, One>>}

\* solAmount arguments: 100/99 and 200/99 have the net inputs 1 and 2 at FEE_RATE
QuoteInputs == {Q(100, 99), Q(200, 99), Q(1, 2), Q(1, 1), Q(2, 1), Q(10, 1)}

InitQuote ==
    /\ \E snapshot \in Snapshots :
          state = [InitialState EXCEPT !.virtualSolReserves = snapshot[1],
                                       !.virtualTokenReserves = snapshot[2]]
    /\ loading = FALSE
    /\ error = "null"
    /\ wallet = TRUE
    /\ tokenMint = TRUE
    /\ calls = [i \in Slots |-> NoCall]
    /\ ops = 0
    /\ win = [base |-> InitialState, ops |-> <<>>, clean |-> FALSE]
    /\ fee = NoFee
    /\ quoted = NoQuote
    /\ last = NoLast
    /\ launch = NoLaunch
    /\ trading = NoTrading
    /\ ui = NoUi
    /\ curve = NoCurve

NextQuote == \E solAmount \in QuoteInputs : calculateBuyQuote(solAmount)

SpecQuote == InitQuote /\ [][NextQuote]_vars

----------------------------------------------------------------------------
\* The graduation scenario: buys of one fixed size, each run to its end, carry
\* realSolReserves from 0 up to REAL_SOL_RESERVES_TARGET; from then on any
\* operation may be issued.

\* solAmount of the buys that lead up to the target: 50/99 SOL, a net input of 1/2
GradStep == Q(50, 99)

Target == Q(REAL_SOL_RESERVES_TARGET, 1)

\* realSolReserves has reached the graduation target
AtTarget(st) == RLe(Target, st.realSolReserves)

\* the target was reached at some point of the behaviour
Crossed == AtTarget(state) \/ ops > 0

GradBuy(i, maxSlippagePct) ==
    /\ ~Crossed
    /\ ~InFlight(calls)
    /\ executeBuyCall(i, GradStep, maxSlippagePct)
    /\ UNCHANGED ops

InitGrad ==
    /\ state = InitialState
    /\ loading = FALSE
    /\ error = "null"
    /\ wallet = TRUE
    /\ tokenMint = TRUE
    /\ calls = [i \in Slots |-> NoCall]
    /\ ops = 0
    /\ win = [base |-> InitialState, ops |-> <<>>, clean |-> FALSE]
    /\ fee = NoFee
    /\ quoted = NoQuote
    /\ last = NoLast
    /\ launch = NoLaunch
    /\ trading = NoTrading
    /\ ui = NoUi
    /\ curve = NoCurve

NextGrad ==
    \/ \E i \in Slots, m \in MaxSlippages : FreeSlot(i) /\ GradBuy(i, m)
    \/ \E i \in Slots : executeBuyResume(i)
    \/ \E i \in Slots, a \in BuyAmounts(state), m \in MaxSlippages :
            Crossed /\ FreeSlot(i) /\ executeBuy(i, a, m)
    \/ \E i \in Slots, t \in SellAmounts(state) :
            Crossed /\ FreeSlot(i) /\ executeSell(i, t)
    \/ \E i \in Slots : executeSellResume(i)
    \/ \E r1, r2, r3, r4 \in Rand : Crossed /\ refreshState(r1, r2, r3, r4)

SpecGrad == InitGrad /\ [][NextGrad]_vars

----------------------------------------------------------------------------
\* The fee step of the BondingCurve class: the constructor stores the feeRate it is
\* given, calculateBuyAmount charges solAmount * feeRate.

\* feeRate arguments of the constructor (its default is 0.01); it accepts any number
FeeRates ==
    {Q(0, 1), Q(1, 1000), Q(1, 100), Q(1, 20), Q(1, 10), Q(1, 2), Q(99, 100),
     Q(1, 1), Q(3, 2), Q(-1, 100)}

\* solAmount arguments of calculateBuyAmount
QuoteAmounts ==
    {Q(-1, 1), Q(0, 1), Q(1, 100), Q(1, 2), Q(1, 1), Q(2, 1), Q(5, 1), Q(10, 1),
     Q(50, 1), Q(100, 1), Q(1000, 1)}

\* new BondingCurve(config, feeRate)
BondingCurveConstructor(feeRate) == [NoFee EXCEPT !.feeRate = feeRate]

\* the first two statements of calculateBuyAmount
calculateBuyAmountFee(this, solAmount) ==
    LET fee_ == RMul(solAmount, this.feeRate)
        netSolAmount == RSub(solAmount, fee_)
    IN  [this EXCEPT !.amount = solAmount, !.fee = fee_, !.netSolAmount = netSolAmount]

calculateBuyAmount(solAmount) ==
    /\ fee' = calculateBuyAmountFee(fee, solAmount)
    /\ UNCHANGED <<state, loading, error, wallet, tokenMint, calls, ops, win, quoted, last, curve,
                 launch, trading, ui>>

InitFee ==
    /\ state = InitialState
    /\ loading = FALSE
    /\ error = "null"
    /\ wallet = FALSE
    /\ tokenMint = FALSE
    /\ calls = [i \in Slots |-> NoCall]
    /\ ops = 0
    /\ win = [base |-> InitialState, ops |-> <<>>, clean |-> FALSE]
    /\ \E r \in FeeRates : fee = BondingCurveConstructor(r)
    /\ quoted = NoQuote
    /\ last = NoLast
    /\ launch = NoLaunch
    /\ trading = NoTrading
    /\ ui = NoUi
    /\ curve = NoCurve

NextFee == \E a \in QuoteAmounts : calculateBuyAmount(a)

SpecFee == InitFee /\ [][NextFee]_vars

----------------------------------------------------------------------------
\* The BondingCurve class as a state machine: an object made by createBondingCurve
\* answers calculatePrice, calculateBuyAmount and calculateSellAmount calls.

calculatePriceCall(supply) ==
    /\ curve' = [curve EXCEPT !.op = "price", !.amount = Zero, !.currentSupply = supply,
                              !.outcome = "returned",
                              !.result = calculatePrice(curve, supply)]
    /\ UNCHANGED <<state, loading, error, wallet, tokenMint, calls, ops, win, fee, quoted, last,
                 launch, trading, ui>>

calculateBuyAmountCall(solAmount, currentSupply) ==
    /\ curve' = [curve EXCEPT !.op = "buy", !.amount = solAmount,
                              !.currentSupply = currentSupply,
                              !.outcome = "returned",
                              !.result = calculateBuyAmountQuote(curve, solAmount, currentSupply)]
    /\ UNCHANGED <<state, loading, error, wallet, tokenMint, calls, ops, win, fee, quoted, last,
                 launch, trading, ui>>

calculateSellAmountCall(tokenAmount, currentSupply) ==
    /\ curve' =
         IF RLe(currentSupply, tokenAmount)
         THEN [curve EXCEPT !.op = "sell", !.amount = tokenAmount,
                            !.currentSupply = currentSupply,
                            !.outcome = "Cannot sell more tokens than current supply",
                            !.result = <<>>]
         ELSE [curve EXCEPT !.op = "sell", !.amount = tokenAmount,
                            !.currentSupply = currentSupply,
                            !.outcome = "returned",
                            !.result = calculateSellAmountQuote(curve, tokenAmount, currentSupply)]
    /\ UNCHANGED <<state, loading, error, wallet, tokenMint, calls, ops, win, fee, quoted, last,
                 launch, trading, ui>>

validateTradeCall(amount, isBuy, currentSupply) ==
    /\ curve' = [curve EXCEPT !.op = "validate", !.amount = amount,
                              !.currentSupply = currentSupply,
                              !.outcome = "returned",
                              !.result = [isBuy |-> isBuy,
                                          valid |-> validateTrade(curve, amount, isBuy,
                                                                  currentSupply)]]
    /\ UNCHANGED <<state, loading, error, wallet, tokenMint, calls, ops, win, fee, quoted, last,
                 launch, trading, ui>>

calculateSupplyFromPriceCall(price) ==
    /\ curve' = [curve EXCEPT !.op = "supplyFromPrice", !.amount = price,
                              !.currentSupply = Zero,
                              !.outcome = "returned",
                              !.result = calculateSupplyFromPrice(curve, price)]
    /\ UNCHANGED <<state, loading, error, wallet, tokenMint, calls, ops, win, fee, quoted, last,
                 launch, trading, ui>>

\* tokenAmount arguments of calculateSellAmount
TokenAmounts == {Q(0, 1), Q(1, 2), Q(1, 1), Q(3, 1), Q(8, 1)}

InitCurve ==
    /\ state = InitialState
    /\ loading = FALSE
    /\ error = "null"
    /\ wallet = FALSE
    /\ tokenMint = FALSE
    /\ calls = [i \in Slots |-> NoCall]
    /\ ops = 0
    /\ win = [base |-> InitialState, ops |-> <<>>, clean |-> FALSE]
    /\ fee = NoFee
    /\ quoted = NoQuote
    /\ last = NoLast
    /\ launch = NoLaunch
    /\ trading = NoTrading
    /\ ui = NoUi
    /\ \E config \in Configs : curve = createBondingCurve(config)

NextCurve ==
    \/ \E supply \in Supplies : calculatePriceCall(supply)
    \/ \E solAmount \in SolAmounts, currentSupply \in Supplies :
            calculateBuyAmountCall(solAmount, currentSupply)
    \/ \E tokenAmount \in TokenAmounts, currentSupply \in Supplies :
            calculateSellAmountCall(tokenAmount, currentSupply)

SpecCurve == InitCurve /\ [][NextCurve]_vars

\* validateTrade and the sell quote it guards, called in any order
NextValidate ==
    \/ \E amount \in TokenAmounts, isBuy \in BOOLEAN, currentSupply \in Supplies :
            validateTradeCall(amount, isBuy, currentSupply)
    \/ \E tokenAmount \in TokenAmounts, currentSupply \in Supplies :
            calculateSellAmountCall(tokenAmount, currentSupply)

SpecValidate == InitCurve /\ [][NextValidate]_vars

\* ---- calculatePrice and calculateSupplyFromPrice as functions of their argument ----

\* configurations of the price function, with exponents 1, 2 and 3
PriceConfigs ==
    Configs \cup
    {[initialPrice |-> One, k |-> 1, maxSupply |-> Q(100, 1)],
     [initialPrice |-> Q(3, 1), k |-> 1, maxSupply |-> Q(10, 1)],
     [initialPrice |-> Q(2, 1), k |-> 3, maxSupply |-> Q(10, 1)],
     [initialPrice |-> Q(1, 10), k |-> 2, maxSupply |-> Q(100, 1)]}

\* supply arguments of calculatePrice: below, on and above every curve
PriceSupplies ==
    {Q(-1, 1), Q(0, 1), Q(1, 2), Q(1, 1), Q(2, 1), Q(3, 1), Q(4, 1), Q(7, 1), Q(8, 1),
     Q(10, 1), Q(25, 1), Q(50, 1), Q(75, 1), Q(99, 1), Q(100, 1), Q(101, 1), Q(200, 1)}

\* price arguments of calculateSupplyFromPrice: the prices calculatePrice returns, and
\* two above initialPrice
Prices(this) ==
    {calculatePrice(this, supply) : supply \in PriceSupplies}
        \cup {RMul(this.config.initialPrice, ratio) : ratio \in {Q(64, 1), Q(729, 64)}}

InitPrice ==
    /\ state = InitialState
    /\ loading = FALSE
    /\ error = "null"
    /\ wallet = FALSE
    /\ tokenMint = FALSE
    /\ calls = [i \in Slots |-> NoCall]
    /\ ops = 0
    /\ win = [base |-> InitialState, ops |-> <<>>, clean |-> FALSE]
    /\ fee = NoFee
    /\ quoted = NoQuote
    /\ last = NoLast
    /\ launch = NoLaunch
    /\ trading = NoTrading
    /\ ui = NoUi
    /\ \E config \in PriceConfigs : curve = createBondingCurve(config)

NextPrice ==
    \/ \E supply \in PriceSupplies : calculatePriceCall(supply)
    \/ \E price \in Prices(curve) : calculateSupplyFromPriceCall(price)

SpecPrice == InitPrice /\ [][NextPrice]_vars

----------------------------------------------------------------------------
\* useTokenLaunch: launchToken, createToken, addLiquidity and reset.  A call runs up to
\* its next await in one step; the callbacks of one render share the render's
\* publicKey and signTransaction.

TokenAddress == "11111111111111111111111111111112"

\* LaunchParams: one that validateParams accepts and one for each of its five checks
LaunchParams ==
    LET valid == [metadata |-> [name |-> "Pump", symbol |-> "PMP", supply |-> 1000],
                  initialLiquidity |-> 1, marketCapTarget |-> 100]
    IN  {valid,
         [valid EXCEPT !.metadata.name = "P"],
         [valid EXCEPT !.metadata.symbol = ""],
         [valid EXCEPT !.metadata.supply = 0],
         [valid EXCEPT !.initialLiquidity = 0],
         [valid EXCEPT !.marketCapTarget = -1]}

\* the error validateParams sets, "null" when it returns true
validateParams(params) ==
    IF params.metadata.name = "" \/ Len(params.metadata.name) < 2
    THEN "Token name must be at least 2 characters"
    ELSE IF params.metadata.symbol = "" \/ Len(params.metadata.symbol) < 2
    THEN "Token symbol must be at least 2 characters"
    ELSE IF params.metadata.supply <= 0
    THEN "Token supply must be greater than 0"
    ELSE IF params.initialLiquidity <= 0
    THEN "Initial liquidity must be greater than 0"
    ELSE IF params.marketCapTarget <= 0
    THEN "Market cap target must be greater than 0"
    ELSE "null"

launchUnchanged ==
    UNCHANGED <<state, loading, error, wallet, tokenMint, calls, ops, win, fee, quoted,
                last, curve, trading, ui>>

\* the slot is free for a new call
FreeLaunchSlot(i) ==
    /\ launch.calls[i].pc \in {"idle", "done"}
    /\ \A j \in Slots : j < i => launch.calls[j].pc \notin {"idle", "done"}

\* launchToken(params) up to its first await, or to its return
launchTokenCall(i, params) ==
    /\ launch' =
         IF validateParams(params) # "null"
         THEN [launch EXCEPT !.state.error = validateParams(params),
                             !.calls[i] = [NoLaunchCall EXCEPT !.kind = "launch",
                                                               !.pc = "done",
                                                               !.outcome = "invalid"]]
         ELSE IF ~launch.publicKey
         THEN [launch EXCEPT !.state.error = "Please connect your wallet first",
                             !.calls[i] = [NoLaunchCall EXCEPT !.kind = "launch",
                                                               !.pc = "done",
                                                               !.outcome = "no wallet"]]
         ELSE IF ~launch.signTransaction
         \* createToken returns null, launchToken throws, catches and ends
         THEN [launch EXCEPT !.state = [isLaunching |-> FALSE,
                                        isCreating |-> launch.state.isCreating,
                                        error |-> "Failed to create token",
                                        txSignature |-> "null",
                                        tokenAddress |-> "null",
                                        progress |-> 0],
                             !.calls[i] = [NoLaunchCall EXCEPT !.kind = "launch",
                                                               !.pc = "done",
                                                               !.outcome = "failed"]]
         \* createToken is at its await
         ELSE [launch EXCEPT !.state = [isLaunching |-> TRUE,
                                        isCreating |-> TRUE,
                                        error |-> "null",
                                        txSignature |-> "null",
                                        tokenAddress |-> "null",
                                        progress |-> 25],
                             !.calls[i] = [NoLaunchCall EXCEPT !.kind = "launch",
                                                               !.pc = "createToken"]]
    /\ launchUnchanged

\* createToken(metadata) called on its own, up to its await or to its return
createTokenCall(i) ==
    /\ launch' =
         IF ~launch.publicKey \/ ~launch.signTransaction
         THEN [launch EXCEPT !.state.error = "Wallet not connected",
                             !.calls[i] = [NoLaunchCall EXCEPT !.kind = "create",
                                                               !.pc = "done",
                                                               !.outcome = "no wallet"]]
         ELSE [launch EXCEPT !.state.isCreating = TRUE,
                             !.state.error = "null",
                             !.state.progress = 25,
                             !.calls[i] = [NoLaunchCall EXCEPT !.kind = "create",
                                                               !.pc = "createToken"]]
    /\ launchUnchanged

\* createToken after its await: it returns the token address; a launchToken call goes
\* on to addLiquidity(tokenAddress, params.initialLiquidity), up to its await
createTokenResume(i) ==
    /\ launch.calls[i].pc = "createToken"
    /\ launch' =
         IF launch.calls[i].kind = "launch"
         THEN [launch EXCEPT !.state.progress = 75,
                             !.state.tokenAddress = TokenAddress,
                             !.state.isCreating = FALSE,
                             !.calls[i].tokenAddress = TokenAddress,
                             !.calls[i].invoked = TRUE,
                             !.calls[i].pc = "addLiquidity"]
         ELSE [launch EXCEPT !.state.progress = 50,
                             !.state.tokenAddress = TokenAddress,
                             !.state.isCreating = FALSE,
                             !.calls[i].tokenAddress = TokenAddress,
                             !.calls[i].pc = "done",
                             !.calls[i].outcome = "created"]
    /\ launchUnchanged

\* addLiquidity(tokenAddress, amount) called on its own, up to its await or its return
addLiquidityCall(i) ==
    /\ launch' =
         IF ~launch.publicKey \/ ~launch.signTransaction
         THEN [launch EXCEPT !.state.error = "Wallet not connected",
                             !.calls[i] = [NoLaunchCall EXCEPT !.kind = "liquidity",
                                                               !.pc = "done",
                                                               !.outcome = "no wallet"]]
         ELSE [launch EXCEPT !.state.progress = 75,
                             !.calls[i] = [NoLaunchCall EXCEPT !.kind = "liquidity",
                                                               !.invoked = TRUE,
                                                               !.pc = "addLiquidity"]]
    /\ launchUnchanged

\* addLiquidity after its awaits: sent is whether the timer, getLatestBlockhash,
\* signTransaction and sendRawTransaction all resolved; a launchToken call then runs
\* its catch and its finally and returns
addLiquidityResume(i, sent) ==
    /\ launch.calls[i].pc = "addLiquidity"
    /\ launch' =
         [launch EXCEPT
            !.state.txSignature = IF sent THEN "signature" ELSE @,
            !.state.progress = IF sent THEN 100 ELSE @,
            !.state.error = IF sent THEN @ ELSE "Failed to add liquidity",
            !.state.isLaunching = IF launch.calls[i].kind = "launch" THEN FALSE ELSE @,
            !.calls[i].pc = "done",
            !.calls[i].outcome = IF sent THEN "added" ELSE "failed"]
    /\ launchUnchanged

reset ==
    /\ launch' = [launch EXCEPT !.state = InitialLaunchState]
    /\ launchUnchanged

\* useWallet() gives another publicKey / signTransaction; a wallet without
\* signTransaction is one that cannot sign
LaunchWalletChange(publicKey, signTransaction) ==
    /\ publicKey \/ ~signTransaction
    /\ <<publicKey, signTransaction>> # <<launch.publicKey, launch.signTransaction>>
    /\ launch' = [launch EXCEPT !.publicKey = publicKey,
                                !.signTransaction = signTransaction]
    /\ launchUnchanged

InitLaunch ==
    /\ state = InitialState
    /\ loading = FALSE
    /\ error = "null"
    /\ wallet = FALSE
    /\ tokenMint = FALSE
    /\ calls = [i \in Slots |-> NoCall]
    /\ ops = 0
    /\ win = [base |-> InitialState, ops |-> <<>>, clean |-> FALSE]
    /\ fee = NoFee
    /\ quoted = NoQuote
    /\ last = NoLast
    /\ curve = NoCurve
    /\ launch = NoLaunch
    /\ trading = NoTrading
    /\ ui = NoUi

NextLaunch ==
    \/ \E i \in Slots, params \in LaunchParams : FreeLaunchSlot(i) /\ launchTokenCall(i, params)
    \/ \E i \in Slots : FreeLaunchSlot(i) /\ createTokenCall(i)
    \/ \E i \in Slots : createTokenResume(i)
    \/ \E i \in Slots : FreeLaunchSlot(i) /\ addLiquidityCall(i)
    \/ \E i \in Slots, sent \in BOOLEAN : addLiquidityResume(i, sent)
    \/ reset
    \/ \E publicKey, signTransaction \in BOOLEAN : LaunchWalletChange(publicKey, signTransaction)

SpecLaunch == InitLaunch /\ [][NextLaunch]_vars

----------------------------------------------------------------------------
\* useTrading: executeTrade with its wrappers buyToken and sellToken.  A call runs up
\* to its next await in one step.

\* tokenAddress arguments: a public key and a string that is none
TokenAddresses == {TokenAddress, "pump"}

\* new PublicKey(tokenAddress) does not throw
isPublicKey(tokenAddress) == tokenAddress # "pump"

\* amount arguments
TradeAmounts == {1, 2}

\* the awaits of executeTrade, in order, and what follows the last
AfterAwait(pc) ==
    CASE pc = "getLatestBlockhash" -> "signTransaction"
      [] pc = "signTransaction" -> "sendRawTransaction"
      [] pc = "sendRawTransaction" -> "confirmTransaction"
      [] pc = "confirmTransaction" -> "done"

tradingUnchanged ==
    UNCHANGED <<state, loading, error, wallet, tokenMint, calls, ops, win, fee, quoted,
                last, curve, launch, ui>>

FreeTradeSlot(i) ==
    /\ trading.calls[i].pc \in {"idle", "done"}
    /\ \A j \in Slots : j < i => trading.calls[j].pc \notin {"idle", "done"}

\* state.positions[tokenAddress] || 0
getPosition(positions, tokenAddress) ==
    IF tokenAddress \in DOMAIN positions THEN positions[tokenAddress] ELSE 0

\* the updater of setState at the end of executeTrade
updatePosition(positions, params) ==
    [t \in DOMAIN positions \cup {params.tokenAddress} |->
        IF t = params.tokenAddress
        THEN getPosition(positions, t) +
                 (IF params.side = "buy" THEN params.amount ELSE -params.amount)
        ELSE positions[t]]

\* executeTrade(params) up to its first await, or to its return
executeTradeCall(i, params) ==
    /\ trading.trades < MaxCalls
    /\ trading' =
         LET call == [NoTradeCall EXCEPT !.tokenAddress = params.tokenAddress,
                                         !.amount = params.amount,
                                         !.side = params.side]
         IN  IF ~trading.publicKey \/ ~trading.signTransaction
             THEN [trading EXCEPT !.trades = @ + 1,
                                  !.calls[i] = [NoTradeCall EXCEPT
                                                   !.pc = "done",
                                                   !.outcome = "Wallet not connected"]]
             ELSE IF ~isPublicKey(params.tokenAddress)
             THEN [trading EXCEPT !.trades = @ + 1,
                                  !.state.isTrading = FALSE,
                                  !.calls[i] = [NoTradeCall EXCEPT !.pc = "done",
                                                                   !.outcome = "failed"]]
             ELSE [trading EXCEPT !.trades = @ + 1,
                                  !.state.isTrading = TRUE,
                                  !.calls[i] = [call EXCEPT !.pc = "getLatestBlockhash"]]
    /\ tradingUnchanged

\* executeTrade after one of its awaits; resolved is whether the promise resolved
executeTradeResume(i, resolved) ==
    /\ trading.calls[i].pc \notin {"idle", "done"}
    /\ trading' =
         IF ~resolved
         THEN [trading EXCEPT !.state.isTrading = FALSE,
                              !.calls[i] = [NoTradeCall EXCEPT !.pc = "done",
                                                               !.outcome = "failed"]]
         ELSE IF AfterAwait(trading.calls[i].pc) = "done"
         THEN [trading EXCEPT !.state.positions = updatePosition(@, trading.calls[i]),
                              !.state.isTrading = FALSE,
                              !.calls[i] = [NoTradeCall EXCEPT !.pc = "done",
                                                               !.outcome = "success"]]
         ELSE [trading EXCEPT !.calls[i].pc = AfterAwait(@)]
    /\ tradingUnchanged

buyToken(i, tokenAddress, amount) ==
    executeTradeCall(i, [tokenAddress |-> tokenAddress, amount |-> amount, side |-> "buy"])

sellToken(i, tokenAddress, amount) ==
    executeTradeCall(i, [tokenAddress |-> tokenAddress, amount |-> amount, side |-> "sell"])

TradingWalletChange(publicKey, signTransaction) ==
    /\ publicKey \/ ~signTransaction
    /\ <<publicKey, signTransaction>> # <<trading.publicKey, trading.signTransaction>>
    /\ trading' = [trading EXCEPT !.publicKey = publicKey,
                                  !.signTransaction = signTransaction]
    /\ tradingUnchanged

NextTrading ==
    \/ \E i \in Slots, tokenAddress \in TokenAddresses, amount \in TradeAmounts :
            FreeTradeSlot(i) /\ buyToken(i, tokenAddress, amount)
    \/ \E i \in Slots, tokenAddress \in TokenAddresses, amount \in TradeAmounts :
            FreeTradeSlot(i) /\ sellToken(i, tokenAddress, amount)
    \/ \E i \in Slots, resolved \in BOOLEAN : executeTradeResume(i, resolved)
    \/ \E publicKey, signTransaction \in BOOLEAN :
            TradingWalletChange(publicKey, signTransaction)

SpecTrading == InitLaunch /\ [][NextTrading]_vars

----------------------------------------------------------------------------
\* TradingInterface: handleTrade, the inputs it reads and fetchBalance.  A handleTrade
\* call reads connected, tradeAmount, tradePrice, activeTab, balance and tokenBalance
\* of the render it is called on, and runs up to its await in one step.

\* what can be typed into the amount and the price field
AmountInputs == {"", "1"}
PriceInputs == {"0.00234", "-1"}

\* parseFloat of the strings above that are numbers
parseFloat(value) ==
    CASE value = "0.00234" -> Q(234, 100000)
      [] value = "1" -> Q(1, 1)
      [] value = "-1" -> Q(-1, 1)

\* SOL balances connection.getBalance(publicKey) / LAMPORTS_PER_SOL resolves to
Balances == {Q(0, 1), Q(1, 2)}

uiUnchanged ==
    UNCHANGED <<state, loading, error, wallet, tokenMint, calls, ops, win, fee, quoted,
                last, curve, launch, trading>>

FreeUiSlot(i) ==
    /\ ui.calls[i].pc \in {"idle", "done"}
    /\ \A j \in Slots : j < i => ui.calls[j].pc \notin {"idle", "done"}

setTradeAmount(value) ==
    /\ value # ui.tradeAmount
    /\ ui' = [ui EXCEPT !.tradeAmount = value]
    /\ uiUnchanged

setTradePrice(value) ==
    /\ value # ui.tradePrice
    /\ ui' = [ui EXCEPT !.tradePrice = value]
    /\ uiUnchanged

setActiveTab(value) ==
    /\ value # ui.activeTab
    /\ ui' = [ui EXCEPT !.activeTab = value]
    /\ uiUnchanged

\* the wallet connects, and the effect calls fetchBalance, or it disconnects
WalletConnection(connected) ==
    /\ connected # ui.connected
    /\ ui' = [ui EXCEPT !.connected = connected,
                        !.fetching = IF connected THEN TRUE ELSE @]
    /\ uiUnchanged

\* fetchBalance after its await: getBalance resolved to a balance or was rejected
fetchBalanceResume(resolved, balance) ==
    /\ ui.fetching
    /\ ui' = [ui EXCEPT !.fetching = FALSE,
                        !.balance = IF resolved THEN balance ELSE @]
    /\ uiUnchanged

\* the Buy button is disabled while the wallet is not connected or isLoading is true;
\* the button of the Sell tab is taken as enabled
Clickable == ui.activeTab = "buy" => (ui.connected /\ ~ui.isLoading)

\* handleTrade() up to its await, or to its return
handleTradeCall(i) ==
    /\ ui.trades < MaxCalls
    /\ ui' =
         IF ~ui.connected
         THEN [ui EXCEPT !.trades = @ + 1,
                         !.calls[i] = [NoHandleTrade EXCEPT
                                          !.pc = "done",
                                          !.outcome = "Please connect your wallet first"]]
         ELSE IF ui.tradeAmount = "" \/ RLe(parseFloat(ui.tradeAmount), Zero)
         THEN [ui EXCEPT !.trades = @ + 1,
                         !.calls[i] = [NoHandleTrade EXCEPT
                                          !.pc = "done",
                                          !.outcome = "Please enter a valid amount"]]
         ELSE LET amount == parseFloat(ui.tradeAmount)
                  price == parseFloat(ui.tradePrice)
                  total == RMul(amount, price)
              IN  IF ui.activeTab = "buy" /\ RLt(ui.balance, total)
                  THEN [ui EXCEPT !.trades = @ + 1,
                                  !.isLoading = FALSE,
                                  !.calls[i] = [NoHandleTrade EXCEPT
                                                   !.pc = "done",
                                                   !.outcome = "Insufficient SOL balance"]]
                  ELSE IF ui.activeTab = "sell" /\ RLt(ui.tokenBalance, amount)
                  THEN [ui EXCEPT !.trades = @ + 1,
                                  !.isLoading = FALSE,
                                  !.calls[i] = [NoHandleTrade EXCEPT
                                                   !.pc = "done",
                                                   !.outcome = "Insufficient token balance"]]
                  ELSE [ui EXCEPT !.trades = @ + 1,
                                  !.isLoading = TRUE,
                                  !.calls[i] = [pc |-> "await", activeTab |-> ui.activeTab,
                                                amount |-> amount, total |-> total,
                                                outcome |-> "none"]]
    /\ uiUnchanged

\* handleTrade after the 2-second timer
handleTradeResume(i) ==
    /\ ui.calls[i].pc = "await"
    /\ ui' =
         LET call == ui.calls[i]
         IN  [ui EXCEPT
                !.balance = IF call.activeTab = "buy" THEN RSub(@, call.total)
                            ELSE RAdd(@, call.total),
                !.tokenBalance = IF call.activeTab = "buy" THEN RAdd(@, call.amount)
                                 ELSE RSub(@, call.amount),
                !.tradeAmount = "",
                !.isLoading = FALSE,
                !.calls[i] = [NoHandleTrade EXCEPT !.pc = "done", !.outcome = "success"]]
    /\ uiUnchanged

handleTrade(i) == FreeUiSlot(i) /\ Clickable /\ handleTradeCall(i)

NextUi ==
    \/ \E value \in AmountInputs : setTradeAmount(value)
    \/ \E value \in PriceInputs : setTradePrice(value)
    \/ \E value \in {"buy", "sell"} : setActiveTab(value)
    \/ \E connected \in BOOLEAN : WalletConnection(connected)
    \/ \E resolved \in BOOLEAN, balance \in Balances : fetchBalanceResume(resolved, balance)
    \/ \E i \in Slots : handleTrade(i)
    \/ \E i \in Slots : handleTradeResume(i)

SpecUi == InitLaunch /\ [][NextUi]_vars

----------------------------------------------------------------------------
\* Properties

\* slot i issues a call in this step
Issued(i) == calls[i].pc # "await" /\ calls'[i] # calls[i]

\* the call of slot i resumes from its await in this step and writes the state
Resumed(i) == calls[i].pc = "await" /\ calls'[i].pc = "done"

\* the call of slot i made its calculation on the reserves it is now applied to
RanAlone(i) == calls[i].snap = Reserves(state)

\* the market is graduated: the flag is set, or realSolReserves has reached the
\* target, the condition on which the flag is to be set
Graduated(st) == st.isComplete \/ AtTarget(st)

\* C1: starting from realSolReserves = 0, through any sequence of successful buys the
\* graduated flag is true exactly in the states from the first buy on after which
\* realSolReserves >= 85 (it is set by the crossing buy, not before, and stays set).
C1_GraduationOnCrossingBuy ==
    ops = 0 => (state.isComplete <=> AtTarget(state))

\* C2: a buy or sell issued while the market is graduated ends at once with a
\* MarketGraduated failure and leaves the five reserve fields as they were.
C2_GraduatedMarketRejectsTrades ==
    [][\A i \in Slots :
          (Graduated(state) /\ Issued(i)) =>
              /\ calls'[i].pc = "done"
              /\ calls'[i].outcome = "MarketGraduated"
              /\ Reserves(state') = Reserves(state)]_vars

\* C3: graduation is terminal: a step from a graduated state leads to a graduated
\* state with the same five reserve fields, whichever operation takes it.
C3_GraduationIsTerminal ==
    [][Graduated(state) =>
          (Graduated(state') /\ Reserves(state') = Reserves(state))]_vars

\* C4: whenever an execution writes the reserves, the calculation it applies was made
\* on exactly the reserves the write is applied to.
C4_NoStaleApplication ==
    [][\A i \in Slots : Resumed(i) => RanAlone(i)]_vars

\* executeBuy / executeSell run from call to return with nothing in between
runAlone(st, op) ==
    LET calculation == IF op.kind = "buy" THEN calculateBuy(st, op.amount)
                       ELSE calculateSell(st, op.amount)
    IN  IF SlippageTooHigh(calculation) THEN st
        ELSE IF op.kind = "buy"
        THEN buyUpdate(st, op.amount, calculation.fee, calculation.outputAmount)
        ELSE sellUpdate(st, op.amount, calculation.outputAmount)

\* two executions overlapped, nothing else touched the state, and both have returned
TwoOverlappedDone == ~InFlight(calls) /\ win.clean /\ Len(win.ops) = 2

\* C5: when two executions that overlapped have both returned, the reserves are
\* those of running the two calls one after the other, in one of the two orders.
C5_OverlappingExecutionsSerialize ==
    TwoOverlappedDone =>
        Reserves(state) \in
            {Reserves(runAlone(runAlone(win.base, win.ops[1]), win.ops[2])),
             Reserves(runAlone(runAlone(win.base, win.ops[2]), win.ops[1]))}

\* slot i issues an executeBuy in this step that gets past the wallet check
BuyQuoted(i) == Issued(i) /\ calls'[i].kind = "buy" /\ wallet /\ tokenMint

Failures == {"WalletNotConnected", "SlippageExceeded"}

\* C7: a step in which an executeBuy or executeSell call ends in failure leaves the
\* five reserve fields as they were.
C7_FailureLeavesReserves ==
    [][\A i \in Slots :
          (calls'[i] # calls[i] /\ calls'[i].outcome \in Failures) =>
              Reserves(state') = Reserves(state)]_vars

\* a sell has failed for its slippage on reserves that earlier operations had moved
C7_Witness ==
    /\ Reserves(state) # Reserves(InitialState)
    /\ \E i \in Slots : calls[i].kind = "sell" /\ calls[i].outcome = "SlippageExceeded"

\* C8: a successful executeBuy that ran alone on reserves with product
\* k = virtualSol * virtualToken leaves virtualSol' = virtualSol + netIn, with
\* netIn = solAmount - solAmount * FEE_RATE, and virtualSol' * virtualToken' = k.
C8_BuyKeepsProduct ==
    [][\A i \in Slots :
          (Resumed(i) /\ calls[i].kind = "buy" /\ RanAlone(i)) =>
              LET netIn == RSub(calls[i].amount, RMul(calls[i].amount, FEE_RATE))
              IN  /\ state'.virtualSolReserves = RAdd(state.virtualSolReserves, netIn)
                  /\ RMul(state'.virtualSolReserves, state'.virtualTokenReserves)
                       = RMul(state.virtualSolReserves, state.virtualTokenReserves)]_vars

\* a buy that ran alone has returned and nothing has touched the state since
C8_Witness ==
    \E i \in Slots :
        /\ calls[i].kind = "buy"
        /\ calls[i].outcome = "ok"
        /\ RLt(Zero, calls[i].amount)
        /\ state.virtualSolReserves =
               RAdd(calls[i].snap[1], RSub(calls[i].amount, calls[i].fee))
        /\ state.virtualTokenReserves = RSub(calls[i].snap[2], calls[i].outputAmount)

\* C9: a successful executeSell of tokenAmount that ran alone on reserves with
\* product k leaves virtualToken' = virtualToken + tokenAmount and
\* virtualSol' = k / virtualToken'.
C9_SellKeepsProduct ==
    [][\A i \in Slots :
          (Resumed(i) /\ calls[i].kind = "sell" /\ RanAlone(i)) =>
              /\ state'.virtualTokenReserves =
                     RAdd(state.virtualTokenReserves, calls[i].amount)
              /\ state'.virtualSolReserves =
                     RDiv(RMul(state.virtualSolReserves, state.virtualTokenReserves),
                          state'.virtualTokenReserves)]_vars

\* C10: every quote with a positive amount reports a fee with 0 <= fee < amount,
\* for every feeRate the BondingCurve can be constructed with.
C10_FeeBelowAmount ==
    RLt(Zero, fee.amount) => (RLe(Zero, fee.fee) /\ RLt(fee.fee, fee.amount))

\* netSolAmount of the calculateBuyAmount call the curve holds
NetIn == RSub(curve.amount, RMul(curve.amount, curve.feeRate))

\* the cost of moving the supply from s0 to s1 on the curve
Cost(s0, s1) == RSub(calculateIntegral(curve, s1, Zero), calculateIntegral(curve, s0, Zero))

\* the curve holds a calculateBuyAmount call with a positive amount at a supply on
\* the curve
BuyOnCurve ==
    /\ curve.op = "buy"
    /\ RLt(Zero, curve.amount)
    /\ RLe(Zero, curve.currentSupply)
    /\ RLe(curve.currentSupply, curve.config.maxSupply)

\* C14: a calculateBuyAmount call whose net input is more than the cost of all the
\* supply left below maxSupply does not return a quote: it fails with CurveExhausted.
C14_ExhaustedCurveRejected ==
    (BuyOnCurve /\ RLt(Cost(curve.currentSupply, curve.config.maxSupply), NetIn))
        => curve.outcome = "CurveExhausted"

\* C15: a calculateBuyAmount call returns only if its solveForSupply left the loop
\* by the return on an iterate within the tolerance; a loop that reaches its cap
\* returns no value.
C15_SolverFailsWithoutConvergence ==
    (curve.op = "buy" /\ curve.outcome = "returned") => curve.result.solved.converged

\* C16: on the power-law curve the price does not fall when the supply rises: of two
\* calculatePrice calls at supplies 0 <= s < s' <= maxSupply the second returns no
\* less than the first.
C16_PriceMonotone ==
    [][(/\ curve.op = "price"
        /\ curve'.op = "price"
        /\ RLe(Zero, curve.currentSupply)
        /\ RLt(curve.currentSupply, curve'.currentSupply)
        /\ RLe(curve'.currentSupply, curve.config.maxSupply))
          => RLe(curve.result, curve'.result)]_vars

\* C17: the tokens a calculateBuyAmount call returns are those its net input pays for
\* on the curve: the cost from currentSupply to currentSupply + outputAmount is the
\* net input, to within one step of 1/Grid of the supply.
C17_BuyPricedByIntegral ==
    (BuyOnCurve /\ RLe(NetIn, Cost(curve.currentSupply, curve.config.maxSupply))) =>
        LET s1 == RAdd(curve.currentSupply, curve.result.outputAmount)
        IN  /\ RLe(Cost(curve.currentSupply, RSub(s1, Q(1, Grid))), NetIn)
            /\ RLe(NetIn, Cost(curve.currentSupply, RAdd(s1, Q(1, Grid))))

\* a call that got past the wallet check is issued in slot i in this step
Quoted(i) == Issued(i) /\ wallet /\ tokenMint

\* a calculateBuy or calculateSell call is made in this step
QuoteStep == quoted' # quoted

\* C11: no step leaves realSolReserves, realTokenReserves or totalSupply below zero,
\* and no sell is applied that pays out more SOL than realSolReserves holds.
C11_ReservesNeverNegative ==
    [][/\ RLe(Zero, state'.realSolReserves)
       /\ RLe(Zero, state'.realTokenReserves)
       /\ RLe(Zero, state'.totalSupply)
       /\ \A i \in Slots :
            (Resumed(i) /\ calls[i].kind = "sell") =>
                RLe(calls[i].outputAmount, state.realSolReserves)]_vars

\* tokenAmount is more than every token quantity the state holds
ExceedsBase(st, tokenAmount) ==
    /\ RLt(st.realTokenReserves, tokenAmount)
    /\ RLt(st.totalSupply, tokenAmount)
    /\ RLt(st.virtualTokenReserves, tokenAmount)

\* C12: a sell of more tokens than there are to sell fails with InsufficientReserve,
\* as a calculateSell call and as an executeSell call, and leaves the reserves as
\* they were.
C12_OversizedSellRejected ==
    [][/\ \A i \in Slots :
            (Quoted(i) /\ calls'[i].kind = "sell" /\ ExceedsBase(state, calls'[i].amount))
                => (/\ calls'[i].outcome = "InsufficientReserve"
                    /\ Reserves(state') = Reserves(state))
       /\ (QuoteStep /\ quoted'.kind = "sell" /\ ExceedsBase(state, quoted'.amount))
                => (/\ quoted'.outcome = "InsufficientReserve"
                    /\ Reserves(state') = Reserves(state))]_vars

\* C13: a calculateBuy call with solAmount <= 0 fails with InvalidAmount, and so does
\* an executeBuy call, which never writes the reserves.
C13_NonPositiveBuyRejected ==
    [][/\ (QuoteStep /\ quoted'.kind = "buy" /\ RLe(quoted'.amount, Zero))
                => quoted'.outcome = "InvalidAmount"
       /\ \A i \in Slots :
            (Quoted(i) /\ calls'[i].kind = "buy" /\ RLe(calls'[i].amount, Zero))
                => (calls'[i].pc = "done" /\ calls'[i].outcome = "InvalidAmount")
       /\ \A i \in Slots :
            (Resumed(i) /\ calls[i].kind = "buy" /\ RLe(calls[i].amount, Zero))
                => Reserves(state') = Reserves(state)]_vars

C20_BuyMovesAllFive ==
    [][\A i \in Slots :
          (Resumed(i) /\ calls[i].kind = "buy" /\ RanAlone(i) /\ RLt(Zero, calls[i].amount)) =>
              LET netIn == RSub(calls[i].amount, calls[i].fee)
                  out == calls[i].outputAmount
              IN  /\ state'.virtualSolReserves = RAdd(state.virtualSolReserves, netIn)
                  /\ state'.realSolReserves = RAdd(state.realSolReserves, netIn)
                  /\ state'.virtualTokenReserves = RSub(state.virtualTokenReserves, out)
                  /\ state'.realTokenReserves = RSub(state.realTokenReserves, out)
                  /\ RAbs(RSub(state'.totalSupply, state.totalSupply)) = out]_vars

\* C21: an executeSell call that passes the slippage check and whose quote pays out
\* more SOL than realSolReserves holds ends at once with an InsufficientReserve
\* failure and leaves the reserves as they were; it is not taken to its await to be
\* applied with realSolReserves held at 0.
C21_NoClampedSell ==
    [][\A i \in Slots :
          (/\ Quoted(i)
           /\ calls'[i].kind = "sell"
           /\ calls'[i].outcome # "SlippageExceeded"
           /\ RLt(state.realSolReserves, calculateSell(state, calls'[i].amount).outputAmount))
              => (/\ calls'[i].pc = "done"
                  /\ calls'[i].outcome = "InsufficientReserve"
                  /\ Reserves(state') = Reserves(state))]_vars

\* C23: the slippage of the quote an executeBuy call makes, the value it compares with
\* the limit, is (avgExecPrice - priceBefore) / priceBefore * 100 with
\* avgExecPrice = netIn / outputAmount.
C23_SlippageIsAveragePrice ==
    [][\A i \in Slots :
          (BuyQuoted(i) /\ RLt(Zero, calls'[i].amount)) =>
              LET calculation == calculateBuy(state, calls'[i].amount)
                  netIn == RSub(calls'[i].amount, calculation.fee)
                  avgExecPrice == RDiv(netIn, calculation.outputAmount)
                  priceBefore == getCurrentPrice(state)
              IN  calls'[i].slippage =
                      RMul(RDiv(RSub(avgExecPrice, priceBefore), priceBefore), Hundred)]_vars

\* C27: loading is true exactly while some executeBuy or executeSell call has started
\* and not yet returned (refreshState starts and returns within one step).
C27_LoadingTracksInFlight == loading <=> InFlight(calls)

\* the power-law price of the claims: initialPrice * (s / maxSupply)^exponent
PowerLaw(config, s) == RMul(config.initialPrice, RPow(RDiv(s, config.maxSupply), config.k))

ScenarioB == [initialPrice |-> One, k |-> 1, maxSupply |-> Q(100, 1)]

\* C24: calculatePrice(s) is initialPrice * (s / maxSupply)^exponent for
\* 0 < s < maxSupply, initialPrice for s <= 0 and the power-law price of maxSupply for
\* s >= maxSupply; with initialPrice 1, exponent 1 and maxSupply 100 it is 1/2 at 50
\* and 1 at 0.
C24_PowerLawPrice ==
    curve.op = "price" =>
        LET s == curve.currentSupply
            config == curve.config
        IN  /\ (RLt(Zero, s) /\ RLt(s, config.maxSupply)) => curve.result = PowerLaw(config, s)
            /\ RLe(s, Zero) => curve.result = config.initialPrice
            /\ RLe(config.maxSupply, s) => curve.result = PowerLaw(config, config.maxSupply)
            /\ (config = ScenarioB /\ s = Q(50, 1)) => curve.result = Q(1, 2)
            /\ (config = ScenarioB /\ s = Zero) => curve.result = One

C24_Witness ==
    /\ curve.op = "price"
    /\ curve.config = ScenarioB
    /\ curve.currentSupply = Q(50, 1)
    /\ curve.result = Q(1, 2)

\* C25: when validateTrade(amount, false, currentSupply) has returned true, the call
\* calculateSellAmount(amount, currentSupply) that follows it returns a quote.
C25_ValidatedSellQuotes ==
    [][(/\ curve.op = "validate"
        /\ ~curve.result.isBuy
        /\ curve.result.valid
        /\ curve'.op = "sell"
        /\ curve'.amount = curve.amount
        /\ curve'.currentSupply = curve.currentSupply)
            => curve'.outcome = "returned"]_vars

\* C26: calculateSupplyFromPrice, called with the price calculatePrice has just
\* returned for a supply s with 0 < s < maxSupply, returns s.
C26_SupplyFromPriceInverts ==
    [][(/\ curve.op = "price"
        /\ RLt(Zero, curve.currentSupply)
        /\ RLt(curve.currentSupply, curve.config.maxSupply)
        /\ curve'.op = "supplyFromPrice"
        /\ curve'.amount = curve.result)
            => curve'.result = curve.currentSupply]_vars

\* C22: for the reserves (virtualQuote, virtualBase) = (virtualSolReserves,
\* virtualTokenReserves), k their product and q the net input of the call, calculateBuy
\* returns outputAmount = virtualBase - k / (virtualQuote + q), priceAfter =
\* (virtualQuote + q) / (k / (virtualQuote + q)) and priceImpact =
\* (priceAfter - priceBefore) / priceBefore * 100; on the reserves (10, 100) a net
\* input of 1 gives outputAmount 100/11, priceBefore 1/10 and priceImpact 21.
C22_ConstantProductBuy ==
    quoted.kind = "buy" =>
        LET virtualQuote == state.virtualSolReserves
            virtualBase == state.virtualTokenReserves
            k == RMul(virtualQuote, virtualBase)
            q == RSub(quoted.amount, quoted.result.fee)
            priceBefore == getCurrentPrice(state)
            priceAfter == RDiv(RAdd(virtualQuote, q), RDiv(k, RAdd(virtualQuote, q)))
        IN  /\ quoted.result.outputAmount = RSub(virtualBase, RDiv(k, RAdd(virtualQuote, q)))
            /\ quoted.result.newPrice = priceAfter
            /\ quoted.result.priceImpact =
                   RMul(RDiv(RSub(priceAfter, priceBefore), priceBefore), Hundred)
            /\ (virtualQuote = Q(10, 1) /\ virtualBase = Q(100, 1) /\ q = One) =>
                   /\ quoted.result.outputAmount = Q(100, 11)
                   /\ priceBefore = Q(1, 10)
                   /\ quoted.result.priceImpact = Q(21, 1)

C22_Witness ==
    /\ quoted.kind = "buy"
    /\ state.virtualSolReserves = Q(10, 1)
    /\ state.virtualTokenReserves = Q(100, 1)
    /\ RSub(quoted.amount, quoted.result.fee) = One
    /\ quoted.result.outputAmount = Q(100, 11)

\* a launchToken call returns in this step
LaunchReturns(i) ==
    /\ launch'.calls[i] # launch.calls[i]
    /\ launch'.calls[i].kind = "launch"
    /\ launch'.calls[i].pc = "done"

\* C28: a launchToken call has invoked addLiquidity only after its createToken call
\* returned a token address; progress is 100 only while txSignature is set; and in
\* the state a launchToken call returns in, isLaunching and isCreating are false.
C28_LaunchOrdering ==
    /\ [](\A i \in Slots :
            (launch.calls[i].kind = "launch" /\ launch.calls[i].invoked)
                => launch.calls[i].tokenAddress # "null")
    /\ [](launch.state.progress = 100 => launch.state.txSignature # "null")
    /\ [][\A i \in Slots :
            LaunchReturns(i) => ~launch'.state.isLaunching /\ ~launch'.state.isCreating]_vars

\* an executeTrade call ends with success in this step, its confirmation awaited
TradeSucceeds(i) ==
    /\ trading.calls[i].pc = "confirmTransaction"
    /\ trading'.calls[i].pc = "done"
    /\ trading'.calls[i].outcome = "success"

\* C29: positions changes only in the step an executeTrade call ends with success,
\* the token's position going up by amount for a buy and down by amount for a sell,
\* every other position staying; and no position is negative in any state reached by
\* buyToken / sellToken calls from empty positions.
C29_PositionsFollowTrades ==
    /\ [][trading'.state.positions # trading.state.positions =>
            \E i \in Slots :
                LET call == trading.calls[i]
                    before == trading.state.positions
                    after == trading'.state.positions
                IN  /\ TradeSucceeds(i)
                    /\ getPosition(after, call.tokenAddress) =
                           getPosition(before, call.tokenAddress) +
                               (IF call.side = "buy" THEN call.amount ELSE -call.amount)
                    /\ \A t \in TokenAddresses \ {call.tokenAddress} :
                           getPosition(after, t) = getPosition(before, t)]_vars
    /\ [](\A t \in DOMAIN trading.state.positions : trading.state.positions[t] >= 0)

\* C30: in every state the SOL balance and the token balance are not negative, and
\* isLoading is false when no handleTrade call is at its await.
C30_BalancesNeverNegative ==
    /\ RLe(Zero, ui.balance)
    /\ RLe(Zero, ui.tokenBalance)
    /\ (\A i \in Slots : ui.calls[i].pc # "await") => ~ui.isLoading

====
